---- MODULE Spec2Model ----
(***************************************************************************)
(* Model of the structure filters of oxide_nanocluster_workflow            *)
(* (src/oxide_nanocluster_workflow/filters.py): energy_filter,             *)
(* graph_filter and the connectivity classifier _is_joined.                *)
(*                                                                         *)
(* Energies are fixed-point integers (addition is exact).  A structure is  *)
(* a record: id is the identity of the Atoms object (its position in the   *)
(* loaded batch), calc says whether a calculator result is attached,       *)
(* energy is that result, feature is the fingerprint returned by           *)
(* VoronoiSite.create_features.                                            *)
(***************************************************************************)
EXTENDS Integers, Sequences, FiniteSets, TLC

\* ---- bounds of the model
MaxLen == 3
MaxEnergy == 2
MaxFeature == 2
MaxThreshold == 1
MaxSites == 4
MaxBondedLen == 3
MaxBondedEnergy == 1
MaxRelaxLen == 2
MaxDft == 1
MaxModelError == 1
MaxDrop == 2
MaxData == 5
MaxTrain == 5

VARIABLES structures, arg, threshold, call, raised,
          M, nTop, nCluster, pc, cluster_index, neighbors, ret,
          loaded, calls,
          given, heap, frame,
          split

filterVars == <<structures, arg, threshold, call, raised>>
joinedVars == <<M, nTop, nCluster, pc, cluster_index, neighbors, ret>>
batchVars == <<loaded, calls>>
relaxVars == <<given, heap, frame>>
splitVars == <<split>>
vars == <<structures, arg, threshold, call, raised,
          M, nTop, nCluster, pc, cluster_index, neighbors, ret,
          loaded, calls,
          given, heap, frame,
          split>>

\* ---- data
Energies == 0..MaxEnergy
Features == 1..MaxFeature
Thresholds == -1..MaxThreshold

\* An Atoms object the filters see.  Without a calculator (calc = FALSE) the
\* energy field is unused and kept at 0.
Structure == {s \in [id : 1..MaxLen, calc : BOOLEAN, energy : Energies, feature : Features] :
                 (~s.calc) => s.energy = 0}

\* The batches a script can load: element i carries id i.
Batches == UNION {{b \in [1..n -> Structure] : \A i \in 1..n : b[i].id = i} : n \in 0..MaxLen}

Range(seq) == {seq[i] : i \in 1..Len(seq)}

\* Mutation: a structure without a calculator counts as having energy 0.
HasEnergyAlways(s) == TRUE

\* Atoms.get_potential_energy raises when no calculator is attached.
HasEnergy(s) == s.calc
AllHaveEnergy(seq) == \A i \in 1..Len(seq) : HasEnergy(seq[i])

\* min(energies): the builtin scans left to right and keeps the first least value.
RECURSIVE MinFrom(_, _, _)
MinFrom(energies, i, best) ==
    IF i > Len(energies) THEN best
    ELSE MinFrom(energies, i + 1, IF energies[i] < best THEN energies[i] ELSE best)

PyMin(energies) == MinFrom(energies, 2, energies[1])

\* Mutation: the boundary is kept.
KeepsEnergyAtBoundary(e, e_min, tau) == e <= e_min + tau

\* The comparison of the list comprehension of energy_filter.
KeepsEnergy(e, e_min, tau) == e < e_min + tau

\* energy_filter: [out |-> returned list, exc |-> exception raised].
EnergyFilter(structs, tau) ==
    IF ~AllHaveEnergy(structs) THEN [out |-> <<>>, exc |-> "RuntimeError"]
    ELSE IF structs = <<>> THEN [out |-> <<>>, exc |-> "ValueError"]
    ELSE LET energies == [i \in 1..Len(structs) |-> structs[i].energy]
             e_min == PyMin(energies)
         IN  [out |-> SelectSeq(structs, LAMBDA s : KeepsEnergy(s.energy, e_min, tau)),
              exc |-> "none"]

\* ---- graph_filter
\* Mutation: every structure opens a group of its own.
FeatureKeysUngrouped(structs, i, keys) == [k \in 1..Len(structs) |-> structs[k].feature]

\* Keys of structures_by_feature in insertion order: the features in order of
\* first occurrence.
RECURSIVE FeatureKeys(_, _, _)
FeatureKeys(structs, i, keys) ==
    IF i > Len(structs) THEN keys
    ELSE FeatureKeys(structs, i + 1,
                     IF structs[i].feature \in Range(keys) THEN keys
                     ELSE Append(keys, structs[i].feature))

\* structures_by_feature[feature]: the structures of one feature, in input order.
FeatureStructures(structs, f) == SelectSeq(structs, LAMBDA s : s.feature = f)

\* Mutation: the least stable structure of the group is kept.
MaxReplaces(item, best) == item.energy > best.energy

\* Mutation: the last of several equal minima is kept.
MinReplacesTies(item, best) == item.energy <= best.energy

\* The builtin min with a key replaces the kept item only by a strictly smaller one.
MinReplaces(item, best) == item.energy < best.energy

\* min(feature_structures, key = energy).
RECURSIVE MinByEnergyFrom(_, _, _)
MinByEnergyFrom(seq, i, best) ==
    IF i > Len(seq) THEN best
    ELSE MinByEnergyFrom(seq, i + 1, IF MinReplaces(seq[i], best) THEN seq[i] ELSE best)

\* Mutation: the first structure of the group is returned with the least energy
\* of the group attached.
MinByEnergyRelabelled(seq) == [seq[1] EXCEPT !.energy = MinByEnergyFrom(seq, 2, seq[1]).energy]

MinByEnergy(seq) == MinByEnergyFrom(seq, 2, seq[1])

\* most_stable_structures: one minimum per group, in the order of the dict's keys.
MostStable(structs) ==
    LET keys == FeatureKeys(structs, 1, <<>>)
    IN  [k \in 1..Len(keys) |-> MinByEnergy(FeatureStructures(structs, keys[k]))]

\* sorted(..., key = energy) is stable: an item goes after every item whose
\* energy is not larger.
RECURSIVE InsertSorted(_, _)
InsertSorted(sorted, s) ==
    IF sorted = <<>> THEN <<s>>
    ELSE IF s.energy < sorted[Len(sorted)].energy
         THEN Append(InsertSorted(SubSeq(sorted, 1, Len(sorted) - 1), s), sorted[Len(sorted)])
         ELSE Append(sorted, s)

RECURSIVE SortedFrom(_, _, _)
SortedFrom(seq, i, sorted) ==
    IF i > Len(seq) THEN sorted
    ELSE SortedFrom(seq, i + 1, InsertSorted(sorted, seq[i]))

\* Mutation: the representatives are returned in the order of the groups.
PyUnsorted(seq) == seq

PySorted(seq) == SortedFrom(seq, 1, <<>>)

\* Mutation: structures[0] is taken to exist for every list.
HasFirstAlways(structs) == TRUE

\* structures[0] exists; indexing an empty list raises IndexError.
HasFirst(structs) == Len(structs) >= 1

\* graph_filter: [out |-> returned list, exc |-> exception raised].
GraphFilter(structs) ==
    IF ~HasFirst(structs) THEN [out |-> <<>>, exc |-> "IndexError"]
    ELSE IF ~AllHaveEnergy(structs) THEN [out |-> <<>>, exc |-> "RuntimeError"]
    ELSE [out |-> PySorted(MostStable(structs)), exc |-> "none"]

\* ---- _is_joined
\* The bond matrix is indexed from 0: the top-layer sites come first, the
\* cluster atoms after them.
Sites(n) == 0..(n - 1)

\* matrix_cluster_indices
ClusterIndices(top, clus) == top..(top + clus - 1)

\* The symmetric 0/1 matrices over n sites, with any diagonal.
UpperPairs(n) == {p \in Sites(n) \X Sites(n) : p[1] <= p[2]}
MatrixOf(n, u) ==
    [p \in Sites(n) \X Sites(n) |-> IF p[1] <= p[2] THEN u[p] ELSE u[<<p[2], p[1]>>]]
BondMatrices(n) == {MatrixOf(n, u) : u \in [UpperPairs(n) -> {0, 1}]}

\* np.flatnonzero(M[index, :] == 1): the columns holding 1, ascending.
RECURSIVE FlatNonZero(_, _, _, _)
FlatNonZero(m, n, index, j) ==
    IF j >= n THEN <<>>
    ELSE IF m[<<index, j>>] = 1
         THEN <<j>> \o FlatNonZero(m, n, index, j + 1)
         ELSE FlatNonZero(m, n, index, j + 1)

\* Mutation: only the part of the row right of the diagonal is read.
VoronoiNeighborsAbove(m, n, index) == FlatNonZero(m, n, index, index)

VoronoiNeighbors(m, n, index) == FlatNonZero(m, n, index, 0)

\* Mutation: the search starts with nothing explored.
BfsStartUnexplored(ci) == [explored |-> {}, queue |-> <<ci>>, distances |-> (ci :> 0)]

\* Mutation: the atom itself gets no distance.
BfsStartNoSelf(ci) == [explored |-> {ci}, queue |-> <<ci>>, distances |-> <<>>]

\* explored, queue and distances at the start of the search from one cluster atom.
BfsStart(ci) == [explored |-> {ci}, queue |-> <<ci>>, distances |-> (ci :> 0)]

\* Mutation: the distance is recorded for every neighbor, explored or not.
RECURSIVE BfsVisitAlwaysRecords(_, _, _, _)
BfsVisitAlwaysRecords(s, index, nbrs, k) ==
    IF k > Len(nbrs) THEN s
    ELSE LET neighbor == nbrs[k]
             recorded == [j \in DOMAIN s.distances \cup {neighbor} |->
                             IF j = neighbor THEN s.distances[index] + 1 ELSE s.distances[j]]
         IN  IF neighbor \notin s.explored
             THEN BfsVisitAlwaysRecords([explored |-> s.explored \cup {neighbor},
                                         queue |-> Append(s.queue, neighbor),
                                         distances |-> recorded],
                                        index, nbrs, k + 1)
             ELSE BfsVisitAlwaysRecords([s EXCEPT !.distances = recorded], index, nbrs, k + 1)

\* The loop over voronoi_neighbors for the dequeued index.
RECURSIVE BfsVisit(_, _, _, _)
BfsVisit(s, index, nbrs, k) ==
    IF k > Len(nbrs) THEN s
    ELSE LET neighbor == nbrs[k]
         IN  IF neighbor \notin s.explored
             THEN BfsVisit([explored |-> s.explored \cup {neighbor},
                            queue |-> Append(s.queue, neighbor),
                            distances |-> s.distances @@ (neighbor :> s.distances[index] + 1)],
                           index, nbrs, k + 1)
             ELSE BfsVisit(s, index, nbrs, k + 1)

\* One pass of the while loop: queue.pop(0), then the loop over its neighbors.
BfsBody(m, n, s) ==
    LET index == Head(s.queue)
    IN  BfsVisit([s EXCEPT !.queue = Tail(s.queue)], index, VoronoiNeighbors(m, n, index), 1)

\* Mutation: the sizes are compared, not the sets: the loop stops once as many
\* indices have a distance as there are cluster atoms.
BfsContinuesByCount(s, cluster) ==
    Len(s.queue) > 0 /\ Cardinality(DOMAIN s.distances) < Cardinality(cluster)

\* The loop condition: the queue is not empty and some cluster atom has no
\* distance yet.
BfsContinues(s, cluster) ==
    Len(s.queue) > 0 /\ ~(cluster \subseteq DOMAIN s.distances)

RECURSIVE BfsRun(_, _, _, _)
BfsRun(m, n, s, cluster) ==
    IF BfsContinues(s, cluster) THEN BfsRun(m, n, BfsBody(m, n, s), cluster) ELSE s

\* Mutation: only directly bonded atoms count as neighbors.
IsNearDirect(d) == d <= 1

\* The test of the neighbor comprehension.
IsNear(d) == d <= 2

\* neighbors[cluster_index]: reading distances[other] for a cluster atom the
\* search has not reached raises KeyError.
ClusterNeighbors(distances, cluster) ==
    IF cluster \subseteq DOMAIN distances
    THEN [exc |-> "none", value |-> {other \in cluster : IsNear(distances[other])}]
    ELSE [exc |-> "KeyError", value |-> {}]

\* list(a set of small integers): ascending.
RECURSIVE ListOfSet(_)
ListOfSet(S) ==
    IF S = {} THEN <<>>
    ELSE LET x == CHOOSE y \in S : \A z \in S : y <= z
         IN  <<x>> \o ListOfSet(S \ {x})

\* One pass of the final while loop.
SearchBody(nbrs, s) ==
    LET index == Head(s.queue)
    IN  IF index \notin s.explored
        THEN [explored |-> s.explored \cup {index},
              queue |-> Tail(s.queue) \o ListOfSet(nbrs[index])]
        ELSE [s EXCEPT !.queue = Tail(s.queue)]

RECURSIVE SearchRun(_, _)
SearchRun(nbrs, s) ==
    IF Len(s.queue) > 0 THEN SearchRun(nbrs, SearchBody(nbrs, s)) ELSE s

\* The returned comparison, as the text of the bool.
Joined(explored, cluster) == IF explored = cluster THEN "True" ELSE "False"

\* ---- joined_filter
\* The loop over matrix_cluster_indices of _is_joined, from cluster atom ci on:
\* neighbors, or the KeyError of the first atom whose search misses an atom.
RECURSIVE NeighborsFrom(_, _, _, _, _)
NeighborsFrom(m, top, clus, ci, nbrs) ==
    IF ci >= top + clus THEN [exc |-> "none", value |-> nbrs]
    ELSE LET cluster == ClusterIndices(top, clus)
             s == BfsRun(m, top + clus, BfsStart(ci), cluster)
             nb == ClusterNeighbors(s.distances, cluster)
         IN  IF nb.exc # "none" THEN [exc |-> nb.exc, value |-> nbrs]
             ELSE NeighborsFrom(m, top, clus, ci + 1, nbrs @@ (ci :> nb.value))

\* _is_joined as one function: "True", "False" or the exception raised.
IsJoined(m, top, clus) ==
    LET nb == NeighborsFrom(m, top, clus, top, <<>>)
    IN  IF nb.exc # "none" THEN nb.exc
        ELSE Joined(SearchRun(nb.value, [explored |-> {}, queue |-> <<top>>]).explored,
                    ClusterIndices(top, clus))

\* The symmetric matrix over n sites with a 1 exactly on the given bonds.
MatrixOfBonds(n, bonds) ==
    [p \in Sites(n) \X Sites(n) |->
        IF p \in bonds \/ <<p[2], p[1]>> \in bonds THEN 1 ELSE 0]

\* The bond graphs get_bond_matrix returns for the structures of a batch on a
\* template with two top-layer sites (0, 1) and two cluster atoms (2, 3): the
\* atoms bonded to one common site, three bonds apart, and in different
\* components.
BondShapes == {"bridged", "apart", "split"}

BondsOfShape(shape) ==
    CASE shape = "bridged" -> {<<0, 2>>, <<0, 3>>}
      [] shape = "apart" -> {<<0, 2>>, <<0, 1>>, <<1, 3>>}
      [] shape = "split" -> {<<0, 2>>, <<1, 3>>}

\* voronoi_site.get_bond_matrix(candidate)
BondMatrixOf(s) == MatrixOfBonds(4, BondsOfShape(s.bond))

\* _is_joined on each of the bond graphs.
JoinedOfShape == [shape \in BondShapes |-> IsJoined(MatrixOfBonds(4, BondsOfShape(shape)), 2, 2)]

\* _is_joined(voronoi_site, s, template)
IsJoinedStructure(s) == JoinedOfShape[s.bond]

\* Mutation: a structure is kept unless it is classified as not joined.
KeepsJoinedUnlessFalse(s) == IsJoinedStructure(s) # "False"

\* The condition of the list comprehension of joined_filter.
KeepsJoined(s) == IsJoinedStructure(s) = "True"

\* joined_filter: [out |-> returned list, exc |-> exception raised].
JoinedFilter(structs) ==
    IF structs = <<>> THEN [out |-> <<>>, exc |-> "IndexError"]
    ELSE IF \E i \in 1..Len(structs) : IsJoinedStructure(structs[i]) = "KeyError"
         THEN [out |-> <<>>, exc |-> "KeyError"]
         ELSE [out |-> SelectSeq(structs, KeepsJoined), exc |-> "none"]

\* ---- the filter pipeline: each call takes the current list and replaces it
\* by the returned one, as the scripts do (structures = f(structures)).
FilterInit ==
    /\ structures \in Batches
    /\ threshold \in Thresholds
    /\ arg = <<>>
    /\ call = "none"
    /\ raised = "none"

JoinedIdle ==
    /\ M = <<>>
    /\ nTop = 0
    /\ nCluster = 0
    /\ pc = "idle"
    /\ cluster_index = 0
    /\ neighbors = <<>>
    /\ ret = "none"

\* No call of relax_local_model in progress.
IdleFrame ==
    [pc |-> "idle", dft_energies |-> <<>>, initial_predicted_energies |-> <<>>,
     final_predicted_energies |-> <<>>, bw_factor |-> "unset", threshold |-> <<>>,
     relaxed_structures |-> <<>>, raised |-> "none"]

RelaxIdle ==
    /\ given = <<>>
    /\ heap = <<>>
    /\ frame = IdleFrame

\* No call of split_data in progress.
SplitIdle ==
    split = [pc |-> "idle", num_data |-> 0, max_train |-> 0,
             train_indices |-> <<>>, other_indices |-> <<>>]

BatchIdle ==
    /\ loaded = <<>>
    /\ calls = <<>>

Init == FilterInit /\ JoinedIdle /\ BatchIdle /\ RelaxIdle /\ SplitIdle

EnergyFilterCall ==
    /\ raised = "none"
    /\ LET r == EnergyFilter(structures, threshold)
       IN  /\ arg' = structures
           /\ call' = "energy_filter"
           /\ raised' = r.exc
           /\ structures' = IF r.exc = "none" THEN r.out ELSE structures
    /\ UNCHANGED <<threshold, joinedVars, batchVars, relaxVars, splitVars>>

GraphFilterCall ==
    /\ raised = "none"
    /\ LET r == GraphFilter(structures)
       IN  /\ arg' = structures
           /\ call' = "graph_filter"
           /\ raised' = r.exc
           /\ structures' = IF r.exc = "none" THEN r.out ELSE structures
    /\ UNCHANGED <<threshold, joinedVars, batchVars, relaxVars, splitVars>>

Next ==
    \/ EnergyFilterCall
    \/ GraphFilterCall

Spec == Init /\ [][Next]_vars
FilterIdle ==
    /\ structures = <<>>
    /\ arg = <<>>
    /\ threshold = 0
    /\ call = "none"
    /\ raised = "none"

\* ---- one call of _is_joined: a bond matrix and the counts of top-layer and
\* cluster atoms, then the loop over the cluster atoms, then the final search.
JoinedInit ==
    /\ \E n \in 1..MaxSites :
           /\ M \in BondMatrices(n)
           /\ nCluster \in 1..n
           /\ nTop = n - nCluster
    /\ pc = "for"
    /\ cluster_index = nTop
    /\ neighbors = <<>>
    /\ ret = "none"

\* One pass of the loop over matrix_cluster_indices: the search from
\* cluster_index and the neighbors of that atom.
ClusterAtomStep ==
    /\ pc = "for"
    /\ LET cluster == ClusterIndices(nTop, nCluster)
           s == BfsRun(M, nTop + nCluster, BfsStart(cluster_index), cluster)
           nb == ClusterNeighbors(s.distances, cluster)
       IN  IF nb.exc # "none"
           THEN /\ pc' = "done"
                /\ ret' = nb.exc
                /\ UNCHANGED <<cluster_index, neighbors>>
           ELSE /\ neighbors' = neighbors @@ (cluster_index :> nb.value)
                /\ cluster_index' = cluster_index + 1
                /\ pc' = IF cluster_index + 1 < nTop + nCluster THEN "for" ELSE "search"
                /\ ret' = ret
    /\ UNCHANGED <<M, nTop, nCluster, filterVars, batchVars, relaxVars, splitVars>>

\* The search through the neighbor graph and the return.
SearchStep ==
    /\ pc = "search"
    /\ LET cluster == ClusterIndices(nTop, nCluster)
           s == SearchRun(neighbors, [explored |-> {}, queue |-> <<nTop>>])
       IN  ret' = Joined(s.explored, cluster)
    /\ pc' = "done"
    /\ UNCHANGED <<M, nTop, nCluster, cluster_index, neighbors, filterVars, batchVars, relaxVars, splitVars>>

NextJoined ==
    \/ ClusterAtomStep
    \/ SearchStep

InitJoined == FilterIdle /\ JoinedInit /\ BatchIdle /\ RelaxIdle /\ SplitIdle

SpecJoined == InitJoined /\ [][NextJoined]_vars

\* ---- the two graph filters applied one after the other to a batch whose
\* structures carry an energy, a fingerprint and a bond graph.
\* The fingerprints are compared for equality only: a batch names them in the
\* order in which they first occur.
FirstOccurrenceOrder(f) ==
    \A i \in DOMAIN f :
        \/ f[i].feature = 1
        \/ \E j \in 1..(i - 1) : f[j].feature >= f[i].feature - 1

\* A structure of a batch: the object at position i with the given energy,
\* fingerprint and bond graph.
BondedAt(i, a) ==
    [id |-> i, calc |-> TRUE, energy |-> a.energy, feature |-> a.feature, bond |-> a.bond]

BatchInit ==
    /\ \E n \in 0..MaxBondedLen :
           \E f \in [1..n -> [energy : 0..MaxBondedEnergy, feature : Features,
                              bond : BondShapes]] :
               /\ FirstOccurrenceOrder(f)
               /\ loaded = [i \in 1..n |-> BondedAt(i, f[i])]
    /\ structures = loaded
    /\ calls = <<>>
    /\ arg = <<>>
    /\ threshold = 0
    /\ call = "none"
    /\ raised = "none"

InitBatch == BatchInit /\ JoinedIdle /\ RelaxIdle /\ SplitIdle

\* structures = graph_filter(structures, template)
GraphFilterStage ==
    /\ raised = "none"
    /\ Len(calls) < 2
    /\ LET r == GraphFilter(structures)
       IN  /\ arg' = structures
           /\ call' = "graph_filter"
           /\ calls' = Append(calls, "graph_filter")
           /\ raised' = r.exc
           /\ structures' = IF r.exc = "none" THEN r.out ELSE structures
    /\ UNCHANGED <<threshold, loaded, joinedVars, relaxVars, splitVars>>

\* structures = joined_filter(structures, template)
JoinedFilterStage ==
    /\ raised = "none"
    /\ Len(calls) < 2
    /\ LET r == JoinedFilter(structures)
       IN  /\ arg' = structures
           /\ call' = "joined_filter"
           /\ calls' = Append(calls, "joined_filter")
           /\ raised' = r.exc
           /\ structures' = IF r.exc = "none" THEN r.out ELSE structures
    /\ UNCHANGED <<threshold, loaded, joinedVars, relaxVars, splitVars>>

NextBatch ==
    \/ GraphFilterStage
    \/ JoinedFilterStage

SpecBatch == InitBatch /\ [][NextBatch]_vars

\* ---- the last stage (scripts/7-graph-filter-3.py): the structures read from
\* the DFT relaxations are in loaded; calls lists what main has done so far.
InitLastStage == BatchInit /\ JoinedIdle /\ RelaxIdle /\ SplitIdle

\* structures = graph_filter(structures, template), the only filter main calls.
LastStageGraphFilter ==
    /\ calls = <<>>
    /\ LET r == GraphFilter(structures)
       IN  /\ arg' = structures
           /\ call' = "graph_filter"
           /\ calls' = <<"graph_filter">>
           /\ raised' = r.exc
           /\ structures' = IF r.exc = "none" THEN r.out ELSE structures
    /\ UNCHANGED <<threshold, loaded, joinedVars, relaxVars, splitVars>>

\* write(config.run_dir / 'final_structures.traj', structures): the final
\* structure set is structures as it is now.
LastStageWrite ==
    /\ calls = <<"graph_filter">>
    /\ raised = "none"
    /\ calls' = Append(calls, "write")
    /\ UNCHANGED <<structures, arg, threshold, call, raised, loaded, joinedVars, relaxVars, splitVars>>

NextLastStage ==
    \/ LastStageGraphFilter
    \/ LastStageWrite

SpecLastStage == InitLastStage /\ [][NextLastStage]_vars

\* ---- relax_local_model
\* Atoms objects live in heap, addressed by an object id: the n input structures
\* are objects 1..n, the Atoms built from the relaxed candidates are objects
\* n+1..2n.  An object has a geometry (of which structure, relaxed or not),
\* constraints or none, a calculator ("none" when it has none) and the energy
\* that calculator gives (<<>> when there is none).
NumStructures == Len(given)

InputObject(i, e, c) ==
    [geom |-> <<i, "initial">>, cons |-> c, calc |-> "single_point", energy |-> <<e>>]

\* Atoms(c) for the relaxed candidate of structure i: a copy of its relaxed
\* positions and of the constraints the relaxer left on it, without calculator.
RelaxedObject(i, c) ==
    [geom |-> <<i, "relaxed">>, cons |-> c, calc |-> "none", energy |-> <<>>]

\* structure.calc = model: the energy becomes the model's prediction.
WithModel(obj, e) == [obj EXCEPT !.calc = "model", !.energy = <<e>>]

\* predicted_energy_diffs
EnergyDiffs(f) ==
    [i \in 1..Len(f.final_predicted_energies) |->
        f.final_predicted_energies[i] - f.initial_predicted_energies[i]]

\* bw / np.sqrt(np.cov(predicted_energy_diffs)): the covariance of one value
\* is nan, that of equal values is 0 and the quotient is inf (numpy warns, it
\* does not raise).
BwFactor(diffs) ==
    IF Len(diffs) = 1 THEN "nan"
    ELSE IF \A i, j \in 1..Len(diffs) : diffs[i] = diffs[j] THEN "inf"
    ELSE "finite"

\* The values min_res.x can take.
Thetas == (0 - MaxDrop - 1)..0

\* Mutation: a difference equal to the threshold is accepted.
IsAcceptedAtThreshold(d, theta) == d >= theta

\* accept = predicted_energy_diffs > threshold
IsAccepted(d, theta) == d > theta

\* Mutation: every rejected structure is replaced by the first input structure.
ResultRefFirst(i, n, accepted) == IF accepted THEN n + i ELSE 1

\* relaxed_structures[i] after the test of accept[i]: the relaxed object, or the
\* input object itself.
ResultRef(i, n, accepted) == IF accepted THEN n + i ELSE i

\* set_constraint() and calc = SinglePointCalculator(energy = dft_energies[i]),
\* done for every element of relaxed_structures.
Finalized(obj, e) == [obj EXCEPT !.cons = FALSE, !.calc = "single_point", !.energy = <<e>>]

RelaxInit ==
    /\ \E n \in 1..MaxRelaxLen :
           \E c \in BOOLEAN :
               \E e \in [1..n -> 0..MaxDft] :
                   given = [i \in 1..n |-> InputObject(i, e[i], c)]
    /\ heap = given
    /\ frame = [IdleFrame EXCEPT !.pc = "cache"]

InitRelax == FilterIdle /\ JoinedIdle /\ BatchIdle /\ RelaxInit /\ SplitIdle

\* dft_energies = [s.get_potential_energy() for s in structures]
CacheDftEnergies ==
    /\ frame.pc = "cache"
    /\ frame' = [frame EXCEPT !.pc = "attach",
                              !.dft_energies = [i \in 1..NumStructures |-> heap[i].energy[1]]]
    /\ UNCHANGED <<given, heap, filterVars, joinedVars, batchVars, splitVars>>

\* The model is attached to every input structure and predicts its energy, off
\* the cached one by the model's error.
AttachModel ==
    /\ frame.pc = "attach"
    /\ \E err \in 0..MaxModelError :
           /\ heap' = [i \in 1..NumStructures |-> WithModel(heap[i], given[i].energy[1] + err)]
           /\ frame' = [frame EXCEPT !.pc = "relax",
                                     !.initial_predicted_energies =
                                         [i \in 1..NumStructures |-> heap'[i].energy[1]]]
    /\ UNCHANGED <<given, filterVars, joinedVars, batchVars, splitVars>>

\* The relaxer lowers the predicted energy of each candidate by some amount
\* and leaves its constraints on the candidates or takes them off;
\* relaxed_structures are new Atoms objects.
Relax ==
    /\ frame.pc = "relax"
    /\ \E drop \in [1..NumStructures -> 0..MaxDrop], c \in BOOLEAN :
           LET final == [i \in 1..NumStructures |->
                            frame.initial_predicted_energies[i] - drop[i]]
           IN  /\ heap' = [k \in 1..(2 * NumStructures) |->
                              IF k <= NumStructures THEN heap[k]
                              ELSE RelaxedObject(k - NumStructures, c)]
               /\ frame' = [frame EXCEPT !.pc = "bandwidth",
                                         !.final_predicted_energies = final,
                                         !.relaxed_structures =
                                             [i \in 1..NumStructures |-> NumStructures + i]]
    /\ UNCHANGED <<given, filterVars, joinedVars, batchVars, splitVars>>

\* bw_factor
Bandwidth ==
    /\ frame.pc = "bandwidth"
    /\ frame' = [frame EXCEPT !.pc = "kde", !.bw_factor = BwFactor(EnergyDiffs(frame))]
    /\ UNCHANGED <<given, heap, filterVars, joinedVars, batchVars, splitVars>>

\* gaussian_kde and the two minimize calls.  They are library code: with a
\* finite bandwidth factor they yield some threshold; with inf or nan they
\* either raise or yield some threshold.
KdeThreshold ==
    /\ frame.pc = "kde"
    /\ \/ \E theta \in Thetas :
              frame' = [frame EXCEPT !.pc = "classify", !.threshold = <<theta>>]
       \/ /\ frame.bw_factor # "finite"
          /\ frame' = [frame EXCEPT !.pc = "done",
                                    !.raised = IF frame.bw_factor = "inf" THEN "LinAlgError"
                                               ELSE "ValueError"]
    /\ UNCHANGED <<given, heap, filterVars, joinedVars, batchVars, splitVars>>

\* The loop over relaxed_structures and the return.
Classify ==
    /\ frame.pc = "classify"
    /\ LET n == NumStructures
           diffs == EnergyDiffs(frame)
           refs == [i \in 1..n |-> ResultRef(i, n, IsAccepted(diffs[i], frame.threshold[1]))]
       IN  /\ heap' = [k \in 1..(2 * n) |->
                          IF \E i \in 1..n : refs[i] = k
                          THEN Finalized(heap[k],
                                         frame.dft_energies[CHOOSE i \in 1..n : refs[i] = k])
                          ELSE heap[k]]
           /\ frame' = [frame EXCEPT !.pc = "done", !.relaxed_structures = refs]
    /\ UNCHANGED <<given, filterVars, joinedVars, batchVars, splitVars>>

NextRelax ==
    \/ CacheDftEnergies
    \/ AttachModel
    \/ Relax
    \/ Bandwidth
    \/ KdeThreshold
    \/ Classify

SpecRelax == InitRelax /\ [][NextRelax]_vars

\* ---- split_data
\* int(round(0.9 * num_data)): 9 * num_data / 10 rounded to the nearest integer,
\* a half to the even one (0.9 * num_data is a half only for num_data = 5 mod
\* 10, where the float product is exact for the sizes modelled).
RoundNineTenths(num_data) ==
    LET q == (9 * num_data) \div 10
        r == (9 * num_data) % 10
    IN  IF r < 5 THEN q
        ELSE IF r > 5 THEN q + 1
        ELSE IF q % 2 = 0 THEN q ELSE q + 1

\* n_train
NTrain(num_data, max_train) ==
    IF RoundNineTenths(num_data) <= max_train THEN RoundNineTenths(num_data) ELSE max_train

\* The lists random.sample(range(num_data), k) can return: k different indices
\* in any order.
Samples(num_data, k) ==
    {s \in [1..k -> 0..(num_data - 1)] : \A i, j \in 1..k : s[i] = s[j] => i = j}

SplitInit ==
    \E n \in 1..MaxData, m \in 0..MaxTrain :
        split = [pc |-> "call", num_data |-> n, max_train |-> m,
                 train_indices |-> <<>>, other_indices |-> <<>>]

InitSplit == FilterIdle /\ JoinedIdle /\ BatchIdle /\ RelaxIdle /\ SplitInit

\* split_data(num_data, max_train), called and returned.
SplitData ==
    /\ split.pc = "call"
    /\ \E train \in Samples(split.num_data, NTrain(split.num_data, split.max_train)) :
           split' = [split EXCEPT
                        !.pc = "done",
                        !.train_indices = train,
                        !.other_indices = ListOfSet((0..(split.num_data - 1)) \ Range(train))]
    /\ UNCHANGED <<filterVars, joinedVars, batchVars, relaxVars>>

NextSplit == SplitData

SpecSplit == InitSplit /\ [][NextSplit]_vars

\* ---- properties of the filters
\* Position of an object in a list (ids are unique within a list).
Pos(seq, s) == CHOOSE k \in 1..Len(seq) : seq[k] = s

\* out lists some elements of inp, each once, in the order they have in inp.
InInputOrder(out, inp) ==
    /\ Range(out) \subseteq Range(inp)
    /\ \A i, j \in 1..Len(out) : i < j => Pos(inp, out[i]) < Pos(inp, out[j])

\* The least energy of a non-empty list, stated without reference to the scan.
LeastEnergy(seq) ==
    CHOOSE e \in {seq[i].energy : i \in 1..Len(seq)} :
        \A i \in 1..Len(seq) : e <= seq[i].energy

EnergyFilterReturned == call = "energy_filter" /\ raised = "none"
GraphFilterReturned == call = "graph_filter" /\ raised = "none"

C2_Idempotent ==
    [][(EnergyFilterReturned /\ threshold >= 0 /\ call' = "energy_filter") =>
           (raised' = "none" /\ structures' = structures)]_vars

\* C3: the output of graph_filter has as many structures as the input has
\* distinct fingerprints, exactly one per fingerprint.
C3_OnePerFingerprint ==
    (call = "graph_filter" /\ arg # <<>> /\ AllHaveEnergy(arg)) =>
        /\ raised = "none"
        /\ Len(structures) = Cardinality({s.feature : s \in Range(arg)})
        /\ \A f \in {s.feature : s \in Range(arg)} :
               Cardinality({i \in 1..Len(structures) : structures[i].feature = f}) = 1

\* A call on a batch in which one fingerprint occurs at least twice and another
\* fingerprint occurs as well.
C3_Witness ==
    /\ GraphFilterReturned
    /\ Len(structures) >= 2
    /\ Len(arg) > Len(structures)

\* C4: no structure of graph_filter's output is dominated, i.e. no input
\* structure has the same fingerprint and a strictly lower energy.
C4_NotDominated ==
    GraphFilterReturned =>
        \A s \in Range(structures) :
            ~ \E t \in Range(arg) : t.feature = s.feature /\ t.energy < s.energy

\* A call on a batch holding a group whose first structure is not its most
\* stable one.
C4_Witness ==
    /\ GraphFilterReturned
    /\ \E i, j \in 1..Len(arg) :
           /\ i < j
           /\ arg[i].feature = arg[j].feature
           /\ arg[j].energy < arg[i].energy
           /\ arg[j] \in Range(structures)

\* C5: graph_filter's output is in non-decreasing order of energy.
C5_SortedByEnergy ==
    GraphFilterReturned =>
        \A i, j \in 1..Len(structures) :
            i < j => structures[i].energy <= structures[j].energy

\* A call whose group representatives, in the order of the groups, were not
\* already in ascending order of energy.
C5_Witness ==
    /\ GraphFilterReturned
    /\ \E i, j \in 1..Len(MostStable(arg)) :
           i < j /\ MostStable(arg)[i].energy > MostStable(arg)[j].energy

\* C6: of several structures sharing their group's minimum energy, graph_filter
\* returns the one that comes first in the input.
C6_FirstOfTies ==
    GraphFilterReturned =>
        \A s \in Range(structures) :
            \A t \in Range(arg) :
                (t.feature = s.feature /\ t.energy = s.energy) =>
                    Pos(arg, s) <= Pos(arg, t)

\* A call on a batch in which two structures of one group share the group's
\* minimum energy and a third structure of the group lies above it.
C6_Witness ==
    /\ GraphFilterReturned
    /\ \E s \in Range(structures) :
           /\ \E t \in Range(arg) : t # s /\ t.feature = s.feature /\ t.energy = s.energy
           /\ \E u \in Range(arg) : u.feature = s.feature /\ u.energy > s.energy
\* ---- properties of _is_joined
Cluster == ClusterIndices(nTop, nCluster)

\* Shortest-path distance at most 2 in the graph of the bond matrix: the same
\* site, a bond, or two bonds through one site.
WithinTwo(a, b) ==
    \/ a = b
    \/ M[<<a, b>>] = 1
    \/ \E k \in Sites(nTop + nCluster) : M[<<a, k>>] = 1 /\ M[<<k, b>>] = 1

\* The cluster atoms reachable from S over WithinTwo restricted to cluster atoms.
RECURSIVE ReachableFrom(_)
ReachableFrom(S) ==
    LET T == S \cup {b \in Cluster : \E a \in S : WithinTwo(a, b)}
    IN  IF T = S THEN S ELSE ReachableFrom(T)

IsJoinedEnded == pc = "done"

\* C7: _is_joined returns true iff the cluster atoms reachable from the first
\* cluster index, over 'shortest-path distance at most 2' restricted to cluster
\* atoms, are all the cluster atoms.
C7_TrueIffReachable ==
    IsJoinedEnded => (ret = "True" <=> ReachableFrom({nTop}) = Cluster)

\* A call that returned true for a cluster in which some pair of atoms is not
\* bonded directly but the first atom reaches all others.
C7_Witness ==
    /\ IsJoinedEnded
    /\ ret = "True"
    /\ nCluster >= 2
    /\ \E a, b \in Cluster : a # b /\ M[<<a, b>>] = 0

\* C8: with two cluster atoms and no path of length <= 2 between them (no path
\* at all included), _is_joined returns false.
C8_TwoApartNotJoined ==
    (IsJoinedEnded /\ nCluster = 2 /\ ~WithinTwo(nTop, nTop + 1)) => ret = "False"

\* C9: _is_joined returns a boolean and raises no error for every symmetric
\* 0/1 bond matrix and at least one cluster atom.
C9_NoFailure ==
    IsJoinedEnded => ret \in {"True", "False"}

\* C10: a structure with exactly one cluster atom is classified as joined,
\* whatever the bond matrix.
C10_SingleAtomJoined ==
    (IsJoinedEnded /\ nCluster = 1) => ret = "True"

\* A call with one cluster atom bonded to a top-layer site and to itself.
C10_Witness ==
    /\ IsJoinedEnded
    /\ nCluster = 1
    /\ nTop >= 2
    /\ M[<<nTop, 0>>] = 1
    /\ M[<<nTop, nTop>>] = 1
    /\ ret = "True"
\* C11: if every cluster atom is bonded to one common top-layer site,
\* _is_joined returns true, for any number of cluster atoms.
C11_SharedSupportJoined ==
    (IsJoinedEnded /\ \E s \in Sites(nTop) : \A c \in Cluster : M[<<c, s>>] = 1) =>
        ret = "True"

\* A call with three cluster atoms, none bonded to another, all bonded to the
\* same top-layer site.
C11_Witness ==
    /\ IsJoinedEnded
    /\ nCluster >= 3
    /\ \E s \in Sites(nTop) : \A c \in Cluster : M[<<c, s>>] = 1
    /\ \A a, b \in Cluster : a # b => M[<<a, b>>] = 0
    /\ ret = "True"
\* ---- properties of the two graph filters
\* What the last call returned or raised.
Outcome == [out |-> IF raised = "none" THEN structures ELSE <<>>, exc |-> raised]

\* joined_filter applied to what graph_filter returns.
JoinedAfterGraph(batch) ==
    LET g == GraphFilter(batch)
    IN  IF g.exc # "none" THEN g ELSE JoinedFilter(g.out)

\* graph_filter applied to what joined_filter returns.
GraphAfterJoined(batch) ==
    LET j == JoinedFilter(batch)
    IN  IF j.exc # "none" THEN j ELSE GraphFilter(j.out)

\* C12: joined_filter returns exactly the input structures for which _is_joined
\* is true, in their relative input order.
C12_JoinedFilterExact ==
    (call = "joined_filter" /\ arg # <<>>) =>
        /\ raised = "none"
        /\ Range(structures) = {s \in Range(arg) : IsJoinedStructure(s) = "True"}
        /\ InInputOrder(structures, arg)

\* C13: every structure graph_filter or joined_filter returns is one of the
\* input structures, with the energy it had in the input.
C13_NoFabrication ==
    (call \in {"graph_filter", "joined_filter"} /\ raised = "none") =>
        \A i \in 1..Len(structures) :
            \E j \in 1..Len(arg) :
                /\ arg[j].id = structures[i].id
                /\ arg[j].calc = structures[i].calc
                /\ arg[j].energy = structures[i].energy

\* Both filters have returned a structure of a batch whose energies differ:
\* graph_filter has dropped a less stable one, joined_filter a not joined one.
C13_Witness ==
    /\ calls = <<"graph_filter", "joined_filter">>
    /\ raised = "none"
    /\ Len(loaded) > Len(arg)
    /\ Len(arg) > Len(structures)
    /\ Len(structures) >= 1
    /\ \E i, j \in 1..Len(loaded) : loaded[i].energy # loaded[j].energy

\* C14: joined_filter applied to the output of graph_filter yields the same
\* structures as graph_filter applied to the output of joined_filter.
C14_OrderIrrelevant ==
    (calls = <<"graph_filter", "joined_filter">>) => Outcome = GraphAfterJoined(loaded)
\* C14 as amended: whenever graph_filter applied to the output of joined_filter
\* returns a list, joined_filter applied to the output of graph_filter returns
\* a list as well, and each of its structures is in the other list.
C14_GraphFirstWithin ==
    (calls = <<"graph_filter", "joined_filter">> /\ GraphAfterJoined(loaded).exc = "none") =>
        /\ raised = "none"
        /\ Range(structures) \subseteq Range(GraphAfterJoined(loaded).out)

\* Both orders return, and graph-first returns strictly fewer structures: the
\* most stable structure of a group is not joined while another one is.
C14_Witness ==
    /\ calls = <<"graph_filter", "joined_filter">>
    /\ raised = "none"
    /\ GraphAfterJoined(loaded).exc = "none"
    /\ Len(structures) >= 1
    /\ Len(structures) < Len(GraphAfterJoined(loaded).out)
\* C20: if a structure of the batch has no attached energy, energy_filter fails
\* with the missing-energy error and returns no list, not even a partial one.
C20_MissingEnergyFails ==
    (call = "energy_filter" /\ \E i \in 1..Len(arg) : ~arg[i].calc) =>
        /\ raised = "RuntimeError"
        /\ structures = arg

\* A call on a batch in which a structure without energy comes after
\* structures that carry one.
C20_Witness ==
    /\ call = "energy_filter"
    /\ raised = "RuntimeError"
    /\ Len(arg) >= 3
    /\ arg[1].calc
    /\ arg[2].calc
    /\ ~arg[3].calc

\* ---- properties of relax_local_model
RelaxReturned == frame.pc = "done" /\ frame.raised = "none"

\* Element i of the returned list.
Returned(i) == heap[frame.relaxed_structures[i]]

\* The energy difference of structure i: relaxed surrogate energy minus initial
\* surrogate energy.
Delta(i) == frame.final_predicted_energies[i] - frame.initial_predicted_energies[i]

Theta == frame.threshold[1]

\* C15: relax_local_model discards nothing: the returned list is as long as the
\* input list and its element i is input structure i, with its relaxed geometry
\* if accepted and its original geometry if rejected.
C15_NeverDiscards ==
    RelaxReturned =>
        /\ Len(frame.relaxed_structures) = Len(given)
        /\ \A i \in 1..Len(given) :
               Returned(i).geom = <<i, IF Delta(i) > Theta THEN "relaxed" ELSE "initial">>

\* A returned batch of two whose first structure is accepted and whose second
\* one is rejected.
C15_Witness ==
    /\ RelaxReturned
    /\ Len(given) = 2
    /\ Delta(1) > Theta
    /\ Delta(2) < Theta
    /\ Returned(2).geom = <<2, "initial">>

\* C16: structure i is accepted iff its energy difference is strictly greater
\* than the threshold; a rejected structure is returned with its pre-relaxation
\* geometry, no constraints and the energy the input carried on entry.
C16_RejectedRestored ==
    RelaxReturned =>
        \A i \in 1..Len(given) :
            /\ (Returned(i).geom[2] = "relaxed") <=> (Delta(i) > Theta)
            /\ ~(Delta(i) > Theta) =>
                   /\ Returned(i).geom = given[i].geom
                   /\ Returned(i).cons = FALSE
                   /\ Returned(i).calc = "single_point"
                   /\ Returned(i).energy = given[i].energy

\* A structure whose energy difference equals the threshold is rejected; it
\* came with constraints and the model predicted another energy for it than
\* the one it carried.
C16_Witness ==
    /\ RelaxReturned
    /\ \E i \in 1..Len(given) :
           /\ Delta(i) = Theta
           /\ given[i].cons
           /\ frame.initial_predicted_energies[i] # given[i].energy[1]
           /\ Returned(i).energy = given[i].energy
    /\ \E j \in 1..Len(given) : Delta(j) > Theta

\* C17: an accepted structure is returned with its relaxed geometry and its
\* relaxed surrogate energy.
C17_AcceptedKeepsSurrogateEnergy ==
    RelaxReturned =>
        \A i \in 1..Len(given) :
            (Delta(i) > Theta) =>
                /\ Returned(i).geom = <<i, "relaxed">>
                /\ Returned(i).energy = <<frame.final_predicted_energies[i]>>

\* C18: after the call every input structure has the constraints, calculator
\* and energy it had before the call, and a rejected structure is returned as a
\* new object.
C18_InputsUntouched ==
    RelaxReturned =>
        \A i \in 1..Len(given) :
            /\ heap[i] = given[i]
            /\ frame.relaxed_structures[i] # i

\* C19: when all energy differences of the batch are equal, the call fails with
\* DegenerateDistribution and computes neither a bandwidth factor nor a
\* threshold.
C19_DegenerateFails ==
    (/\ frame.pc \in {"kde", "classify", "done"}
     /\ \A i, j \in 1..Len(given) : Delta(i) = Delta(j)) =>
        /\ frame.raised = "DegenerateDistribution"
        /\ frame.bw_factor = "unset"
        /\ frame.threshold = <<>>

\* ---- properties of the empty batch and of the last stage
\* C21: graph_filter called with an empty list fails (IndexError, the
\* empty-input condition) and returns no list.
C21_EmptyInputFails ==
    (call = "graph_filter" /\ arg = <<>>) =>
        /\ raised = "IndexError"
        /\ structures = arg

\* graph_filter was called with an empty list and raised.
C21_Witness ==
    /\ call = "graph_filter"
    /\ arg = <<>>
    /\ raised = "IndexError"

\* C22: every structure of the final structure set has been classified joined
\* by _is_joined.
C22_FinalAllJoined ==
    (calls = <<"graph_filter", "write">>) =>
        \A i \in 1..Len(structures) : IsJoinedStructure(structures[i]) = "True"

\* ---- properties of the search loops of _is_joined
\* The sites at most k bonds away from site a.
RECURSIVE WithinSteps(_, _)
WithinSteps(a, k) ==
    IF k = 0 THEN {a}
    ELSE LET B == WithinSteps(a, k - 1)
         IN  B \cup {j \in Sites(nTop + nCluster) : \E i \in B : M[<<i, j>>] = 1}

\* d is the shortest-path distance from a to b.
IsDistance(a, b, d) ==
    /\ b \in WithinSteps(a, d)
    /\ d = 0 \/ b \notin WithinSteps(a, d - 1)

\* The search from one cluster atom as _is_joined runs it.
SearchOf(ci) == BfsRun(M, nTop + nCluster, BfsStart(ci), Cluster)

\* The variant of the search that runs until its queue is empty.
RECURSIVE BfsRunToEnd(_, _, _)
BfsRunToEnd(m, n, s) ==
    IF Len(s.queue) > 0 THEN BfsRunToEnd(m, n, BfsBody(m, n, s)) ELSE s

\* The variant of _is_joined in which every search runs until its queue is empty.
RECURSIVE NeighborsToEndFrom(_, _)
NeighborsToEndFrom(ci, nbrs) ==
    IF ci >= nTop + nCluster THEN [exc |-> "none", value |-> nbrs]
    ELSE LET s == BfsRunToEnd(M, nTop + nCluster, BfsStart(ci))
             nb == ClusterNeighbors(s.distances, Cluster)
         IN  IF nb.exc # "none" THEN [exc |-> nb.exc, value |-> nbrs]
             ELSE NeighborsToEndFrom(ci + 1, nbrs @@ (ci :> nb.value))

IsJoinedToEnd ==
    LET nb == NeighborsToEndFrom(nTop, <<>>)
    IN  IF nb.exc # "none" THEN nb.exc
        ELSE Joined(SearchRun(nb.value, [explored |-> {}, queue |-> <<nTop>>]).explored, Cluster)

\* C24: the early end of the search from a cluster atom is only an
\* optimization: the distance recorded for each cluster atom when the loop
\* stops is its shortest-path distance in the graph, and _is_joined ends as
\* the variant does in which every search runs until its queue is empty.
C24_EarlyStopIsOptimization ==
    IsJoinedEnded =>
        /\ ret = IsJoinedToEnd
        /\ \A ci \in Cluster :
               LET d == SearchOf(ci).distances
               IN  \A other \in Cluster \cap DOMAIN d : IsDistance(ci, other, d[other])

\* A call that returned true after a search stopped with sites still in its
\* queue and a site it never reached, which the search to the end reaches.
C24_Witness ==
    /\ IsJoinedEnded
    /\ ret = "True"
    /\ \E ci \in Cluster :
           /\ Len(SearchOf(ci).queue) > 0
           /\ DOMAIN SearchOf(ci).distances #
                  DOMAIN BfsRunToEnd(M, nTop + nCluster, BfsStart(ci)).distances

\* The indices the search from s on appends to its queue, in order, after those
\* of acc: each pass of the loop appends what its queue gained.
RECURSIVE EnqueuedFrom(_, _)
EnqueuedFrom(s, acc) ==
    IF BfsContinues(s, Cluster)
    THEN LET s2 == BfsBody(M, nTop + nCluster, s)
         IN  EnqueuedFrom(s2, acc \o SubSeq(s2.queue, Len(s.queue), Len(s2.queue)))
    ELSE acc

\* Every index the search from cluster atom ci puts in its queue, ci included.
Enqueued(ci) == EnqueuedFrom(BfsStart(ci), <<ci>>)

\* The number of passes of the final while loop from s on, after k passes.
RECURSIVE DequeuesFrom(_, _)
DequeuesFrom(s, k) ==
    IF Len(s.queue) > 0 THEN DequeuesFrom(SearchBody(neighbors, s), k + 1) ELSE k

Dequeues == DequeuesFrom([explored |-> {}, queue |-> <<nTop>>], 0)

NoDuplicates(seq) == \A i, j \in 1..Len(seq) : seq[i] = seq[j] => i = j

\* C25: _is_joined terminates: the search from a cluster atom puts every index
\* in its queue at most once, and the final search makes at most one pass for
\* the first index and one for every entry of the neighbor sets, although it
\* puts explored indices in its queue again.
C25_Terminates ==
    IsJoinedEnded =>
        /\ \A ci \in Cluster :
               /\ NoDuplicates(Enqueued(ci))
               /\ Len(Enqueued(ci)) <= nTop + nCluster
        /\ ret \in {"True", "False"} => Dequeues <= 1 + nCluster * nCluster

\* A call whose final search took an explored index from its queue again, and
\* one of whose searches put every site in its queue.
C25_Witness ==
    /\ IsJoinedEnded
    /\ ret \in {"True", "False"}
    /\ Dequeues > nCluster
    /\ nTop >= 1
    /\ \E ci \in Cluster : Len(Enqueued(ci)) = nTop + nCluster

\* ---- properties of the diagonal of the bond matrix
\* The bond matrix with its diagonal set to 0.
ZeroDiagonal(m) == [p \in DOMAIN m |-> IF p[1] = p[2] THEN 0 ELSE m[p]]

\* C26: self-loops tell _is_joined nothing: it ends on a bond matrix as it
\* does on the matrix with the same entries off the diagonal and a zero
\* diagonal, hence alike on two matrices that differ only in the diagonal.
C26_SelfLoopsIgnored ==
    IsJoinedEnded => ret = IsJoined(ZeroDiagonal(M), nTop, nCluster)

\* A call that returned true on a matrix in which a top-layer site bonded to
\* two cluster atoms has a self-loop, and so has a cluster atom.
C26_Witness ==
    /\ IsJoinedEnded
    /\ ret = "True"
    /\ \E k \in Sites(nTop), a, b \in Cluster :
           /\ a # b
           /\ M[<<k, k>>] = 1
           /\ M[<<k, a>>] = 1
           /\ M[<<k, b>>] = 1
           /\ M[<<a, b>>] = 0
           /\ M[<<a, a>>] = 1

\* ---- properties of split_data
\* C27: split_data returns two disjoint index lists that together cover
\* 0..num_data-1, with at most max_train training indices and at least a
\* tenth of the data in the validation list.
C27_SplitKeepsTenth ==
    (split.pc = "done") =>
        /\ Range(split.train_indices) \cap Range(split.other_indices) = {}
        /\ Range(split.train_indices) \cup Range(split.other_indices) = 0..(split.num_data - 1)
        /\ Len(split.train_indices) + Len(split.other_indices) = split.num_data
        /\ Len(split.train_indices) <= split.max_train
        /\ 10 * Len(split.other_indices) >= split.num_data
====
